---------------------------- MODULE Spec2Model ----------------------------
(***************************************************************************)
(* E-Commerce Sales Insights Dashboard: the Home page (record set, filter  *)
(* spec, facet sets, filtered view, upload / sample-load lifecycle) and    *)
(* the three chart components (SalesTrend, TopProducts, RegionalSales).    *)
(*                                                                         *)
(* Encoding of JavaScript values                                           *)
(*   strings   : 0 is the absent / empty (falsy) value, 1.. are distinct   *)
(*               non-empty strings numbered in their sort order            *)
(*   numbers   : naturals; Undefined is an absent field, NaN not-a-number  *)
(*   money     : thousandths of the currency unit, so that toFixed(2) is   *)
(*               a real rounding                                           *)
(*   dates     : a date string is a record [kind, day, tick]; a Date       *)
(*               object is its instant in UTC ticks, NaN for Invalid Date  *)
(***************************************************************************)
EXTENDS Integers, Sequences, FiniteSets, TLC

\* ------------------------------------------------------------------ bounds
MaxDay == 2
TicksPerDay == 2
MaxCat == 2
MaxFilterLen == 2

\* ------------------------------------------------- JavaScript value markers
Undefined == -1
NaN == -2
\* a non-empty string that is not the text of a number, such as 'n/a'
Text == -3

\* the date-fns majors the import at page.tsx:18 resolves to
DateFnsMajors == {2, 3}
\* offsets of the local time zone from UTC, in ticks
TzOffsets == {-1, 0, 1}

Days == 1..MaxDay

\* ------------------------------------------------------------ date strings
NoDate == [kind |-> "none", day |-> 0, tick |-> 0]
BadDate == [kind |-> "bad", day |-> 0, tick |-> 0]
DateOnly(d) == [kind |-> "date", day |-> d, tick |-> 0]
DateTime(d, t) == [kind |-> "datetime", day |-> d, tick |-> t]

DateOnlyStrings == {DateOnly(d) : d \in Days}
DateTimeStrings == {DateTime(d, t) : d \in Days, t \in 1..(TicksPerDay - 1)}
ValidDateStrings == DateOnlyStrings \cup DateTimeStrings
DateStrings == ValidDateStrings \cup {BadDate, NoDate}

\* the strings that name a calendar day
HasDay(s) == s.kind \in {"date", "datetime"}

\* parseISO: date-only and zone-less date-time strings are both local time;
\* anything unparseable is Invalid Date
ParseISO(s, zone) ==
    CASE s.kind = "date" -> s.day * TicksPerDay - zone
      [] s.kind = "datetime" -> s.day * TicksPerDay + s.tick - zone
      [] OTHER -> NaN

\* date-fns 2 answers Invalid Date to a non-string argument; date-fns 3 calls
\* argument.split and throws a TypeError on undefined
ParseISOThrows(s, major) == major >= 3 /\ s.kind = "none"

\* ------------------------------------------------------------------ records
SalesData ==
    [orderDate : DateStrings, date : DateStrings,
     productName : Nat, product : Nat,
     category : Nat, region : Nat,
     quantity : Int, unitPrice : Int, price : Int,
     sales : Int, amount : Int, profit : Int]

BlankRow ==
    [orderDate |-> NoDate, date |-> NoDate, productName |-> 0, product |-> 0,
     category |-> 0, region |-> 0, quantity |-> Undefined,
     unitPrice |-> Undefined, price |-> Undefined, sales |-> Undefined,
     amount |-> Undefined, profit |-> Undefined]

Filters == [start : 0..MaxDay, end : 0..MaxDay, category : 0..MaxCat, region : 0..MaxCat]

\* sequences over S of length at most n
SeqsUpTo(S, n) == UNION {[1..k -> S] : k \in 0..n}

VARIABLES
    data,          \* useState: the full record set
    filters,       \* useState: the filter spec
    isLoading,     \* useState: an upload is being processed
    mounted,       \* useState: the mount effect has run
    categories,    \* useMemo over data: category facet
    regions,       \* useMemo over data: region facet
    filteredData,  \* useMemo over data and filters: outcome of data.filter
    lsData,        \* localStorage item 'salesData'
    fetchState,    \* the fetch of /sample-data.json started by the mount effect
    upload,        \* the handleFileUpload call suspended at its await
    outcome,       \* how the latest handleFileUpload call ended
    crashed,       \* a render of Home threw: the component is gone
    rendered,      \* the component under study has rendered
    dateFns,       \* major version of date-fns in the build
    tz,            \* offset of the local time zone from UTC, in ticks
    isMobile,      \* useResponsive: the display is a constrained one
    trendData,     \* SalesTrend: outcome of processData()
    topProducts,   \* TopProducts: the topProducts memo
    chartData,     \* RegionalSales: the chartData memo
    raised         \* what the latest render of each chart component raised

pageVars == <<data, filters, isLoading, mounted, categories, regions, lsData,
              fetchState, upload, outcome, crashed>>
chartVars == <<isMobile, trendData, topProducts, chartData, raised>>
vars == <<pageVars, filteredData, rendered, dateFns, tz, chartVars>>

\* ------------------------------------------------------ categories, regions
\* Set.add keeps insertion order and ignores a value already present
SetAdd(s, v) == IF \E i \in 1..Len(s) : s[i] = v THEN s ELSE Append(s, v)

\* Array.prototype.sort() without comparator: ascending string order
RECURSIVE InsertAsc(_, _)
InsertAsc(s, v) ==
    IF s = <<>> THEN <<v>>
    ELSE IF v < Head(s) THEN <<v>> \o s
    ELSE <<Head(s)>> \o InsertAsc(Tail(s), v)

RECURSIVE SortAsc(_)
SortAsc(s) == IF s = <<>> THEN <<>> ELSE InsertAsc(SortAsc(Tail(s)), Head(s))

RECURSIVE CollectCategories(_, _)
CollectCategories(d, cats) ==
    IF d = <<>> THEN cats
    ELSE CollectCategories(Tail(d),
            IF Head(d).category # 0 THEN SetAdd(cats, Head(d).category) ELSE cats)

RECURSIVE CollectRegions(_, _)
CollectRegions(d, regs) ==
    IF d = <<>> THEN regs
    ELSE CollectRegions(Tail(d),
            IF Head(d).region # 0 THEN SetAdd(regs, Head(d).region) ELSE regs)

\* mutant: the facet is left in first-seen order
CategoriesOfUnsorted(d) == CollectCategories(d, <<>>)

CategoriesOf(d) == SortAsc(CollectCategories(d, <<>>))
RegionsOf(d) == SortAsc(CollectRegions(d, <<>>))

\* ------------------------------------------------------------ filteredData
Returned(v) == [threw |-> "none", value |-> v]
Threw(e) == [threw |-> e, value |-> <<>>]

\* isWithinInterval: date-fns 2 throws RangeError unless start <= end;
\* date-fns 3 orders the two ends first. An Invalid Date is in no interval.
IsWithinIntervalThrows(s, e, major) == major = 2 /\ ~(s <= e)

IsWithinInterval(time, s, e, major) ==
    LET lo == IF s <= e THEN s ELSE e
        hi == IF s <= e THEN e ELSE s
    IN  time # NaN /\ time >= lo /\ time <= hi

\* the callback of data.filter: it throws "TypeError" or "RangeError", or
\* answers "keep" (true) or "drop" (false)
FilterItem(item, f, major, zone) ==
    LET dated == f.start # 0 /\ f.end # 0
        orderDate == ParseISO(item.orderDate, zone)
        startDate == ParseISO(DateOnly(f.start), zone)
        endDate == ParseISO(DateOnly(f.end), zone)
    IN  IF dated /\ ParseISOThrows(item.orderDate, major) THEN "TypeError"
        ELSE IF dated /\ IsWithinIntervalThrows(startDate, endDate, major) THEN "RangeError"
        ELSE IF dated /\ ~IsWithinInterval(orderDate, startDate, endDate, major) THEN "drop"
        ELSE IF f.category # 0 /\ item.category # f.category THEN "drop"
        ELSE IF f.region # 0 /\ item.region # f.region THEN "drop"
        ELSE "keep"

\* mutant: the first record that passes is left out
FilteredDataButFirst(d, f, major, zone) ==
    LET verdict(i) == FilterItem(d[i], f, major, zone)
        throwing == {i \in 1..Len(d) : verdict(i) \in {"TypeError", "RangeError"}}
        first == CHOOSE i \in throwing : \A j \in throwing : i <= j
        keep(item) == FilterItem(item, f, major, zone) = "keep"
        kept == SelectSeq(d, keep)
    IN  IF throwing # {} THEN Threw(verdict(first))
        ELSE Returned(IF kept = <<>> THEN kept ELSE Tail(kept))

FilteredData(d, f, major, zone) ==
    LET verdict(i) == FilterItem(d[i], f, major, zone)
        throwing == {i \in 1..Len(d) : verdict(i) \in {"TypeError", "RangeError"}}
        first == CHOOSE i \in throwing : \A j \in throwing : i <= j
        keep(item) == FilterItem(item, f, major, zone) = "keep"
    IN  IF throwing # {} THEN Threw(verdict(first))
        ELSE Returned(SelectSeq(d, keep))

\* ---------------------------------------------------------------- Home page
MaxRows == 2

\* format(new Date(), 'yyyy-MM-dd') and the same day one month earlier
Today == MaxDay
MonthAgo == 1
DefaultFilters == [start |-> MonthAgo, end |-> Today, category |-> 0, region |-> 0]

NoItem == [present |-> FALSE, rows |-> <<>>]
\* JSON.stringify / JSON.parse of an array of flat rows: the same rows
Stored(rows) == [present |-> TRUE, rows |-> rows]

PageRow(c) ==
    [BlankRow EXCEPT
        !.orderDate = IF c = 0 THEN DateTime(MaxDay, 1) ELSE DateOnly(((c - 1) % MaxDay) + 1),
        !.category = c,
        !.region = MaxCat - c]
\* files of n rows: from row k on, the same row again (step 0), the categories
\* ascending (step 1) or descending (step MaxCat)
PageFile(n, k, step) == [i \in 1..n |-> PageRow((k + i * step) % (MaxCat + 1))]
PageFiles == {PageFile(n, k, step) : n \in 0..MaxRows, k \in 0..MaxCat, step \in {0, 1, MaxCat}}
SampleData == [i \in 1..MaxRows |-> PageRow(i % (MaxCat + 1))]

\* no chart component has raised anything
NoneRaised == [trend |-> "none", top |-> "none", region |-> "none"]

\* the chart components before their first render
ChartsIdle ==
    /\ isMobile = FALSE
    /\ trendData = Returned(<<>>)
    /\ topProducts = <<>>
    /\ chartData = <<>>
    /\ raised = NoneRaised

\* a render of Home: the three memos are recomputed from the new state; a
\* throw out of the filter callback takes the component down
Render(d, f) ==
    LET fd == FilteredData(d, f, dateFns, tz)
    IN  /\ categories' = CategoriesOf(d)
        /\ regions' = RegionsOf(d)
        /\ filteredData' = fd
        /\ crashed' = (fd.threw # "none")

Init ==
    /\ data = <<>>
    /\ filters = DefaultFilters
    /\ isLoading = FALSE
    /\ mounted = FALSE
    /\ categories = <<>>
    /\ regions = <<>>
    /\ filteredData = Returned(<<>>)
    /\ lsData \in {NoItem} \cup {Stored(f) : f \in PageFiles}
    /\ fetchState = "none"
    /\ upload = "none"
    /\ outcome = "none"
    /\ crashed = FALSE
    /\ rendered = FALSE
    /\ dateFns \in DateFnsMajors
    /\ tz = 0
    /\ ChartsIdle

\* useEffect(() => {...}, []): load the saved record set, or fetch the sample
Mount ==
    /\ ~mounted
    /\ mounted' = TRUE
    /\ rendered' = TRUE
    /\ IF lsData.present
         THEN /\ data' = lsData.rows
              /\ fetchState' = "none"
         ELSE /\ data' = data
              /\ fetchState' = "pending"
    /\ Render(data', filters)
    /\ UNCHANGED <<filters, isLoading, lsData, upload, outcome, dateFns, tz, chartVars>>

\* .then(sampleData => { setData(sampleData); localStorage.setItem(...) })
FetchResolve ==
    /\ fetchState = "pending"
    /\ fetchState' = "done"
    /\ lsData' = Stored(SampleData)
    /\ IF crashed
         THEN UNCHANGED <<data, categories, regions, filteredData, crashed>>
         ELSE data' = SampleData /\ Render(data', filters)
    /\ UNCHANGED <<filters, isLoading, mounted, upload, outcome, rendered, dateFns, tz, chartVars>>

\* setData(sampleData) has run when localStorage.setItem throws (the quota is
\* exceeded or storage is denied): the promise rejects with no handler
FetchStoreFails ==
    /\ fetchState = "pending"
    /\ fetchState' = "failed"
    /\ IF crashed
         THEN UNCHANGED <<data, categories, regions, filteredData, crashed>>
         ELSE data' = SampleData /\ Render(data', filters)
    /\ UNCHANGED <<filters, isLoading, mounted, lsData, upload, outcome, rendered, dateFns, tz, chartVars>>

\* the fetch or res.json() rejects: no handler, nothing changes
FetchReject ==
    /\ fetchState = "pending"
    /\ fetchState' = "failed"
    /\ UNCHANGED <<data, filters, isLoading, mounted, categories, regions, filteredData,
                   lsData, upload, outcome, crashed, rendered, dateFns, tz, chartVars>>

Interactive == mounted /\ ~crashed

SetFilters(f) ==
    /\ Interactive
    /\ filters' = f
    /\ Render(data, f)
    /\ UNCHANGED <<data, isLoading, mounted, lsData, fetchState, upload, outcome,
                   rendered, dateFns, tz, chartVars>>

\* onChange of the two date inputs: min / max steer the picker, the handler
\* takes whatever value the input reports ('' when cleared); the user picks
\* among the two default days
PickedDays == {0, MonthAgo, Today}
SetStart == \E d \in PickedDays : SetFilters([filters EXCEPT !.start = d])
SetEnd == \E d \in PickedDays : SetFilters([filters EXCEPT !.end = d])

\* onChange of the two selects: the options are '' and the facet values
SetCategory ==
    \E i \in 0..Len(categories) :
        SetFilters([filters EXCEPT !.category = IF i = 0 THEN 0 ELSE categories[i]])
SetRegion ==
    \E i \in 0..Len(regions) :
        SetFilters([filters EXCEPT !.region = IF i = 0 THEN 0 ELSE regions[i]])

resetFilters == SetFilters(DefaultFilters)

\* accept=".json,.xlsx,.xls,.csv": the file types the upload control offers
Accepted == {"json", "xlsx", "xls", "csv"}

\* the branch of handleFileUpload that file.name.endsWith selects
Branch(ext) ==
    IF ext = "json" THEN "json"
    ELSE IF ext \in {"xlsx", "xls"} THEN "xlsx"
    ELSE "unsupported"

\* handleFileUpload up to its await: a .json, .xlsx or .xls file; either
\* parsing branch suspends once, reading the file
UploadStart ==
    /\ Interactive
    /\ ~isLoading
    /\ upload = "none"
    /\ \E ext \in Accepted : Branch(ext) # "unsupported"
    /\ upload' = "reading"
    /\ isLoading' = TRUE
    /\ Render(data, filters)
    /\ UNCHANGED <<data, filters, mounted, lsData, fetchState, outcome, rendered, dateFns, tz, chartVars>>

\* mutant: the handler empties the record set before it throws
UploadUnsupportedClearing ==
    /\ Interactive
    /\ ~isLoading
    /\ upload = "none"
    /\ \E ext \in Accepted : Branch(ext) = "unsupported"
    /\ outcome' = "unsupported"
    /\ isLoading' = FALSE
    /\ data' = <<>>
    /\ Render(data', filters)
    /\ UNCHANGED <<filters, mounted, lsData, fetchState, upload, rendered, dateFns, tz, chartVars>>

\* handleFileUpload of a file of any other type the control offers: the
\* throw, the catch (which alerts the message 'Unsupported file format...')
\* and the finally run without suspending
UploadUnsupported ==
    /\ Interactive
    /\ ~isLoading
    /\ upload = "none"
    /\ \E ext \in Accepted : Branch(ext) = "unsupported"
    /\ outcome' = "unsupported"
    /\ isLoading' = FALSE
    /\ Render(data, filters)
    /\ UNCHANGED <<data, filters, mounted, lsData, fetchState, upload, rendered, dateFns, tz, chartVars>>

\* the rest of handleFileUpload once the file has been read and parsed
UploadParsed ==
    /\ upload # "none"
    /\ \E rows \in PageFiles :
        /\ lsData' = Stored(rows)
        /\ IF crashed
             THEN UNCHANGED <<data, categories, regions, filteredData, crashed>>
             ELSE data' = rows /\ Render(rows, filters)
    /\ upload' = "none"
    /\ outcome' = "ok"
    /\ isLoading' = FALSE
    /\ UNCHANGED <<filters, mounted, fetchState, rendered, dateFns, tz, chartVars>>

\* setData(jsonData) has run when localStorage.setItem throws (the quota is
\* exceeded or storage is denied): catch alerts, finally clears the flag
UploadStoreFails ==
    /\ upload # "none"
    /\ \E rows \in PageFiles :
        IF crashed
          THEN UNCHANGED <<data, categories, regions, filteredData, crashed>>
          ELSE data' = rows /\ Render(rows, filters)
    /\ upload' = "none"
    /\ outcome' = "error"
    /\ isLoading' = FALSE
    /\ UNCHANGED <<filters, mounted, lsData, fetchState, rendered, dateFns, tz, chartVars>>

\* JSON.parse or XLSX.read throws: catch alerts, finally clears the flag
UploadFailed ==
    /\ upload # "none"
    /\ upload' = "none"
    /\ outcome' = "error"
    /\ isLoading' = FALSE
    /\ UNCHANGED <<data, filters, mounted, categories, regions, filteredData, lsData,
                   fetchState, crashed, rendered, dateFns, tz, chartVars>>

Next ==
    \/ Mount
    \/ FetchResolve
    \/ FetchReject
    \/ SetStart
    \/ SetEnd
    \/ SetCategory
    \/ SetRegion
    \/ resetFilters
    \/ UploadStart
    \/ UploadUnsupported
    \/ UploadParsed
    \/ UploadFailed

\* Home in a browser whose storage takes every write
Spec == Init /\ [][Next]_vars

\* ------------------------------------------------------ load lifecycle
\* the mount-time load and the uploads, in a browser whose storage can refuse
\* a write, with the filter spec left as Home starts it
NextStore ==
    \/ Mount
    \/ FetchResolve
    \/ FetchStoreFails
    \/ FetchReject
    \/ UploadStart
    \/ UploadUnsupported
    \/ UploadParsed
    \/ UploadStoreFails
    \/ UploadFailed

SpecStore == Init /\ [][NextStore]_vars

\* ------------------------------------------------------- filter specification
\* Home with the record set d loaded from localStorage by the mount effect
Loaded(d) ==
    /\ data = d
    /\ isLoading = FALSE
    /\ mounted = TRUE
    /\ categories = CategoriesOf(d)
    /\ regions = RegionsOf(d)
    /\ lsData = Stored(d)
    /\ fetchState = "none"
    /\ upload = "none"
    /\ outcome = "none"
    /\ crashed = FALSE

\* category c goes with region MaxCat - c, so every facet value occurs in
\* both fields and the region is absent from some rows
\* the date strings and the rows (every date string with every category),
\* numbered
DateStringAt(j) ==
    IF j = 0 THEN NoDate
    ELSE IF j = 1 THEN BadDate
    ELSE LET k == j - 2
         IN  IF k % TicksPerDay = 0 THEN DateOnly((k \div TicksPerDay) + 1)
             ELSE DateTime((k \div TicksPerDay) + 1, k % TicksPerDay)
FilterRowCount == (2 + MaxDay * TicksPerDay) * MaxCat
FilterRowAt(j) ==
    LET c == (j % MaxCat) + 1
    IN  [BlankRow EXCEPT !.orderDate = DateStringAt(j \div MaxCat),
                         !.category = c, !.region = MaxCat - c]

\* record sets of n rows, each a fixed number of rows further on than the one
\* before it: every row, every pair of rows, and the longer sets of this shape
FilterInput(n, k, step) == [i \in 1..n |-> FilterRowAt((k + i * step) % FilterRowCount)]
FilterInputs ==
    {FilterInput(n, k, step) :
        n \in 0..MaxFilterLen, k \in 0..(FilterRowCount - 1), step \in 0..(FilterRowCount - 1)}

InitFilter ==
    /\ \E d \in FilterInputs : Loaded(d)
    /\ filters \in Filters
    /\ dateFns \in DateFnsMajors
    /\ tz \in TzOffsets
    /\ filteredData = Returned(<<>>)
    /\ rendered = FALSE
    /\ ChartsIdle

\* const filteredData = useMemo(() => data.filter(...), [data, filters])
ApplyFilter ==
    /\ ~rendered
    /\ filteredData' = FilteredData(data, filters, dateFns, tz)
    /\ rendered' = TRUE
    /\ crashed' = (filteredData'.threw # "none")
    /\ UNCHANGED <<data, filters, isLoading, mounted, categories, regions, lsData,
                   fetchState, upload, outcome, dateFns, tz, chartVars>>

NextFilter == ApplyFilter

SpecFilter == InitFilter /\ [][NextFilter]_vars

\* ---------------------------------------------------------------- C1, C2
NonInverted(f) == f.start # 0 /\ f.end # 0 /\ f.start <= f.end
Inverted(f) == f.start # 0 /\ f.end # 0 /\ f.start > f.end

MatchesSpec(item, f) ==
    /\ HasDay(item.orderDate)
    /\ f.start <= item.orderDate.day
    /\ item.orderDate.day <= f.end
    /\ (f.category # 0 => item.category = f.category)
    /\ (f.region # 0 => item.region = f.region)

\* C1: under a non-inverted date range the filtered set is exactly the records
\* whose order day lies in [start, end], both end days included, and whose
\* category and region equal the non-empty constraints, in their original order.
\* (Stated for record sets whose rows all carry an orderDate string; rows
\* without one are the subject of C12.)
AllDated(d) == \A i \in 1..Len(d) : d[i].orderDate # NoDate

C1_FilterContract ==
    (rendered /\ NonInverted(filters) /\ AllDated(data)) =>
        LET matches(item) == MatchesSpec(item, filters)
        IN  filteredData = Returned(SelectSeq(data, matches))

\* C2: under an inverted date range the filter returns the empty sequence and
\* raises nothing, whatever the category and region constraints are.
C2_InvertedMatchesNothing ==
    (rendered /\ Inverted(filters)) => filteredData = Returned(<<>>)

\* -------------------------------------------------------------------- C16
\* C16: once an upload has completed successfully, no step other than the
\* completion of a later upload changes the record set; in particular the
\* mount-time fetch resolving afterwards leaves the uploaded rows in place.
C16_UploadNotOverwritten ==
    [][(outcome = "ok" /\ ~UploadParsed /\ ~UploadStoreFails) => data' = data]_vars

\* -------------------------------------------------------------------- C17
\* C17: whenever Home is mounted and neither the mount-time fetch nor an
\* upload is in progress, the rows stored under 'salesData' are the rows of
\* the record set (no stored item counting as no rows).
C17_PersistedEqualsMemory ==
    (mounted /\ ~crashed /\ fetchState # "pending" /\ upload = "none") => lsData.rows = data

\* -------------------------------------------------------------------- C15
\* filter(filter(R, S), S): a throw out of the inner call ends the outer one
FilterTwice(d, f, major, zone) ==
    LET once == FilteredData(d, f, major, zone)
    IN  IF once.threw # "none" THEN once ELSE FilteredData(once.value, f, major, zone)

\* C15: for every record set and filter spec, filtering the filtered set
\* again under the same spec gives the filtered set, as a sequence (and raises
\* what the first filtering raised when that one raises).
C15_FilterIdempotent ==
    rendered => FilterTwice(data, filters, dateFns, tz) = filteredData

\* a dated filter spec that keeps one of two records
C15_Witness ==
    /\ rendered
    /\ filteredData.threw = "none"
    /\ filters.start # 0 /\ filters.end # 0
    /\ filters.category # 0
    /\ Len(data) = 2
    /\ Len(filteredData.value) = 1
    /\ FilterTwice(data, filters, dateFns, tz).value = filteredData.value

StrictlyAscending(s) == \A i \in 1..(Len(s) - 1) : s[i] < s[i + 1]
Elements(s) == {s[i] : i \in 1..Len(s)}

\* C3: in every reachable state the category and region facets are the
\* ascending, duplicate-free sequences of the non-empty category and region
\* values of the full record set: they are a function of data alone (no filter
\* change moves them) and hold no absent value and no value no record carries.
C3_FacetsOfFullSet ==
    /\ StrictlyAscending(categories)
    /\ Elements(categories) = {data[i].category : i \in 1..Len(data)} \ {0}
    /\ StrictlyAscending(regions)
    /\ Elements(regions) = {data[i].region : i \in 1..Len(data)} \ {0}

\* a filter that is not the default one hides a record, the categories were
\* first seen in descending order and one record has no region
C3_Witness ==
    /\ mounted /\ ~crashed
    /\ filters # DefaultFilters
    /\ filters.category # 0
    /\ Len(filteredData.value) < Len(data)
    /\ Len(data) >= 2
    /\ data[1].category > data[2].category
    /\ data[2].category > 0
    /\ \E i \in 1..Len(data) : data[i].region = 0

\* ------------------------------------------------------------- SalesTrend
MaxTrendLen == 2
MaxAmount == 2

\* a || b on numbers: 0, NaN and an absent field are falsy
Truthy(n) == n \notin {0, Undefined, NaN}
Or(a, b) == IF Truthy(a) THEN a ELSE b

\* arithmetic: an absent operand (undefined), NaN or a non-numeric string
\* gives NaN, except that + with a string operand concatenates into a string
IsNumber(n) == n \notin {Undefined, NaN, Text}
Plus(a, b) ==
    IF a = Text \/ b = Text THEN Text
    ELSE IF IsNumber(a) /\ IsNumber(b) THEN a + b ELSE NaN
Minus(a, b) == IF IsNumber(a) /\ IsNumber(b) THEN a - b ELSE NaN
Times(a, b) == IF IsNumber(a) /\ IsNumber(b) THEN a * b ELSE NaN

\* a comparator (a, b) => b - a puts b first when the difference is positive;
\* a NaN difference leaves the two in place
Greater(b, a) == IsNumber(Minus(b, a)) /\ Minus(b, a) > 0

\* parseFloat of a number is that number, of anything else here NaN
ParseFloat(n) == IF IsNumber(n) THEN n ELSE NaN

\* new Date(string): a date-only string is UTC midnight, a zone-less
\* date-time string is local time, anything else is Invalid Date
NewDate(s, zone) ==
    CASE s.kind = "date" -> s.day * TicksPerDay
      [] s.kind = "datetime" -> s.day * TicksPerDay + s.tick - zone
      [] OTHER -> NaN

\* format(date, 'yyyy-MM-dd'): the local calendar day of the instant
FormatDay(time, zone) == (time + zone) \div TicksPerDay

\* item.date || item.orderDate
DateField(item) == IF item.date # NoDate THEN item.date ELSE item.orderDate

\* mutant: a new bucket starts empty and the record that opens it is dropped
AccumulateAfterFirst(daily, dateKey, saleAmount, profitAmount) ==
    IF \E i \in 1..Len(daily) : daily[i].date = dateKey
      THEN LET i == CHOOSE k \in 1..Len(daily) : daily[k].date = dateKey
           IN  [daily EXCEPT ![i] = [date |-> dateKey,
                                     sales |-> @.sales + saleAmount,
                                     profit |-> @.profit + profitAmount,
                                     revenue |-> @.revenue + (saleAmount - profitAmount)]]
      ELSE Append(daily, [date |-> dateKey, sales |-> 0, profit |-> 0, revenue |-> 0])

\* if (!dailyData[dateKey]) {...}; then the three +=
Accumulate(daily, dateKey, saleAmount, profitAmount) ==
    LET known == \E i \in 1..Len(daily) : daily[i].date = dateKey
        opened == IF known THEN daily
                  ELSE Append(daily, [date |-> dateKey, sales |-> 0, profit |-> 0, revenue |-> 0])
        i == CHOOSE k \in 1..Len(opened) : opened[k].date = dateKey
    IN  [opened EXCEPT ![i] = [date |-> dateKey,
                               sales |-> Plus(@.sales, saleAmount),
                               profit |-> Plus(@.profit, profitAmount),
                               revenue |-> Plus(@.revenue, Minus(saleAmount, profitAmount))]]

\* data.forEach(item => {...}): Threw when format meets an Invalid Date
RECURSIVE GroupByDay(_, _, _)
GroupByDay(d, daily, zone) ==
    IF d = <<>> THEN Returned(daily)
    ELSE LET item == Head(d)
             date == DateField(item)
             time == NewDate(date, zone)
             saleAmount == ParseFloat(Or(item.sales, Or(item.amount, 0)))
             profitAmount == ParseFloat(Or(item.profit, 0))
         IN  IF date = NoDate THEN GroupByDay(Tail(d), daily, zone)
             ELSE IF time = NaN THEN Threw("RangeError")
             ELSE GroupByDay(Tail(d),
                     Accumulate(daily, FormatDay(time, zone), saleAmount, profitAmount),
                     zone)

\* .sort((a, b) => new Date(a.date).getTime() - new Date(b.date).getTime()),
\* stable; new Date of a 'yyyy-MM-dd' key is UTC midnight of that day
RECURSIVE InsertByDate(_, _)
InsertByDate(s, b) ==
    IF s = <<>> THEN <<b>>
    ELSE IF NewDate(DateOnly(b.date), 0) < NewDate(DateOnly(Head(s).date), 0) THEN <<b>> \o s
    ELSE <<Head(s)>> \o InsertByDate(Tail(s), b)

RECURSIVE SortByDate(_)
SortByDate(s) ==
    IF s = <<>> THEN <<>>
    ELSE InsertByDate(SortByDate(SubSeq(s, 1, Len(s) - 1)), s[Len(s)])

ProcessData(d, zone) ==
    LET grouped == GroupByDay(d, <<>>, zone)
    IN  IF d = <<>> THEN Returned(<<>>)
        ELSE IF grouped.threw # "none" THEN grouped
        ELSE Returned(SortByDate(grouped.value))

NoFilters == [start |-> 0, end |-> 0, category |-> 0, region |-> 0]

\* the chart components receive filteredData; under the empty filter spec that
\* is the whole record set
ChartInput(d) == Loaded(d) /\ filters = NoFilters /\ filteredData = Returned(d)

TrendAmounts ==
    {[sales |-> a, profit |-> Undefined] : a \in 1..MaxAmount}
        \cup {[sales |-> MaxAmount, profit |-> 1]}

TrendRows ==
    {[BlankRow EXCEPT !.orderDate = s, !.sales = a.sales, !.profit = a.profit] :
        s \in DateStrings, a \in TrendAmounts}
    \cup {[BlankRow EXCEPT !.date = s, !.orderDate = DateOnly(MaxDay), !.amount = 1] :
        s \in DateOnlyStrings}

InitTrend ==
    /\ \E d \in SeqsUpTo(TrendRows, MaxTrendLen) : ChartInput(d)
    /\ tz \in TzOffsets
    /\ dateFns \in DateFnsMajors
    /\ rendered = FALSE
    /\ ChartsIdle

\* const chartData = processData(), on the first render of SalesTrend
RenderTrend ==
    /\ ~rendered
    /\ rendered' = TRUE
    /\ trendData' = ProcessData(filteredData.value, tz)
    /\ raised' = [raised EXCEPT !.trend = trendData'.threw]
    /\ UNCHANGED <<pageVars, filteredData, dateFns, tz, isMobile, topProducts, chartData>>

\* the display changes size: SalesTrend renders again and calls processData()
ResizeTrend ==
    /\ rendered
    /\ isMobile' = ~isMobile
    /\ trendData' = ProcessData(filteredData.value, tz)
    /\ raised' = [raised EXCEPT !.trend = trendData'.threw]
    /\ UNCHANGED <<pageVars, filteredData, rendered, dateFns, tz, topProducts, chartData>>

NextTrend == RenderTrend \/ ResizeTrend

SpecTrend == InitTrend /\ [][NextTrend]_vars

\* ----------------------------------------------------------------- C4, C5
RECURSIVE SumOf(_)
SumOf(s) == IF s = <<>> THEN 0 ELSE Head(s) + SumOf(Tail(s))

\* the amounts a record carries, the alias amount standing in for sales
SalesOf(item) ==
    IF item.sales # Undefined THEN item.sales
    ELSE IF item.amount # Undefined THEN item.amount ELSE 0
ProfitOf(item) == IF item.profit # Undefined THEN item.profit ELSE 0

AllValidDates(d) == \A i \in 1..Len(d) : HasDay(DateField(d[i]))

\* C4: when every record has a valid date, the bucket sales add up to the
\* sales of the input records and the bucket profits to their profits.
C4_TotalsPreserved ==
    (rendered /\ AllValidDates(filteredData.value)) =>
        LET d == filteredData.value
            b == trendData.value
        IN  /\ trendData.threw = "none"
            /\ SumOf([i \in 1..Len(b) |-> b[i].sales]) = SumOf([i \in 1..Len(d) |-> SalesOf(d[i])])
            /\ SumOf([i \in 1..Len(b) |-> b[i].profit]) = SumOf([i \in 1..Len(d) |-> ProfitOf(d[i])])

\* two records of one day and a profit, in a zone where date-only strings
\* change day
C4_Witness ==
    /\ rendered
    /\ AllValidDates(filteredData.value)
    /\ Len(filteredData.value) = 2
    /\ Len(trendData.value) = 1
    /\ trendData.value[1].sales > MaxAmount
    /\ trendData.value[1].profit > 0
    /\ tz < 0

\* C5: one bucket per distinct calendar day of the input, in strictly
\* ascending date order, each with the sums of that day's records and
\* revenue = sales - profit.
C5_OneBucketPerDay ==
    (rendered /\ AllValidDates(filteredData.value)) =>
        LET d == filteredData.value
            b == trendData.value
            dayOf(i) == DateField(d[i]).day
            ofDay(day) == {i \in 1..Len(d) : dayOf(i) = day}
            total(S, amt(_)) == LET RECURSIVE sum(_)
                                    sum(T) == IF T = {} THEN 0
                                              ELSE LET i == CHOOSE k \in T : TRUE
                                                   IN  amt(d[i]) + sum(T \ {i})
                                IN  sum(S)
        IN  /\ trendData.threw = "none"
            /\ {b[k].date : k \in 1..Len(b)} = {dayOf(i) : i \in 1..Len(d)}
            /\ \A k \in 1..(Len(b) - 1) : b[k].date < b[k + 1].date
            /\ \A k \in 1..Len(b) :
                /\ b[k].sales = total(ofDay(b[k].date), SalesOf)
                /\ b[k].profit = total(ofDay(b[k].date), ProfitOf)
                /\ b[k].revenue = b[k].sales - b[k].profit

\* ------------------------------------------------------------ TopProducts
MobileLimit == 5
DesktopLimit == 10
MaxTopLen == 2
MaxProd == 2
MaxQty == 2
MaxWide == 12

\* the callback of data.reduce: acc.find(p => p.product === item.product),
\* then update the entry found or push a new one
ReduceProduct(acc, item) ==
    IF \E i \in 1..Len(acc) : acc[i].product = item.product
      THEN LET i == CHOOSE k \in 1..Len(acc) :
                        /\ acc[k].product = item.product
                        /\ \A j \in 1..(k - 1) : acc[j].product # item.product
           IN  [acc EXCEPT ![i] = [product |-> @.product,
                                   quantity |-> Plus(@.quantity, item.quantity),
                                   sales |-> Plus(@.sales, Times(item.quantity, item.price))]]
      ELSE Append(acc, [product |-> item.product,
                        quantity |-> item.quantity,
                        sales |-> Times(item.quantity, item.price)])

RECURSIVE GroupByProduct(_, _)
GroupByProduct(d, acc) ==
    IF d = <<>> THEN acc ELSE GroupByProduct(Tail(d), ReduceProduct(acc, Head(d)))

\* .sort((a, b) => b.quantity - a.quantity), stable: an entry goes behind
\* every entry of at least its quantity
RECURSIVE InsertByQuantity(_, _)
InsertByQuantity(s, e) ==
    IF s = <<>> THEN <<e>>
    ELSE IF Greater(e.quantity, Head(s).quantity) THEN <<e>> \o s
    ELSE <<Head(s)>> \o InsertByQuantity(Tail(s), e)

RECURSIVE SortByQuantity(_)
SortByQuantity(s) ==
    IF s = <<>> THEN <<>>
    ELSE InsertByQuantity(SortByQuantity(SubSeq(s, 1, Len(s) - 1)), s[Len(s)])

\* the full per-product ranking
Ranking(d) == SortByQuantity(GroupByProduct(d, <<>>))

\* mutant: the desktop limit on every display
LimitDesktopOnly(mobile) == DesktopLimit

\* isMobile ? 5 : 10
Limit(mobile) == IF mobile THEN MobileLimit ELSE DesktopLimit

\* .slice(0, n)
Slice(s, n) == SubSeq(s, 1, IF Len(s) < n THEN Len(s) ELSE n)

\* .reverse()
Reverse(s) == [i \in 1..Len(s) |-> s[Len(s) + 1 - i]]

\* import {..., useMemo} from 'recharts': the names recharts exports among
\* the ones the chart files ask it for; useMemo is a hook of react, and a
\* binding the module does not export is undefined
RechartsExports ==
    {"BarChart", "Bar", "LineChart", "Line", "PieChart", "Pie", "Cell", "XAxis", "YAxis",
     "CartesianGrid", "Tooltip", "Legend", "ResponsiveContainer"}

\* calling an imported binding: undefined is not a function
CallImported(name) == IF name \in RechartsExports THEN "none" ELSE "TypeError"

\* the value of the callback handed to useMemo
TopProducts(d, mobile) ==
    LET processed == Slice(Ranking(d), Limit(mobile))
    IN  IF mobile THEN Reverse(processed) ELSE processed

\* a row as SalesData declares it, and a row with the alias names
TypedRow(n, q, p) == [BlankRow EXCEPT !.productName = n, !.quantity = q, !.unitPrice = p]
AliasRow(n, q, p) == [BlankRow EXCEPT !.product = n, !.quantity = q, !.price = p]

\* every product has one unit price
TopRows ==
    {TypedRow(n, q, n) : n \in 1..MaxProd, q \in 1..MaxQty}
        \cup {AliasRow(n, q, n) : n \in 1..MaxProd, q \in 1..MaxQty}

\* n rows over the products 1..k in rotation, quantities repeating with
\* period m
WideInput(n, k, m) ==
    [i \in 1..n |-> AliasRow(((i - 1) % k) + 1, ((i * m) % MaxQty) + 1, 1)]
WideInputs == {WideInput(n, k, m) : n \in 0..MaxWide, k \in 1..MaxWide, m \in 0..MaxQty}

InitTop ==
    /\ \E d \in SeqsUpTo(TopRows, MaxTopLen) \cup WideInputs : ChartInput(d)
    /\ tz = 0
    /\ dateFns \in DateFnsMajors
    /\ rendered = FALSE
    /\ isMobile \in BOOLEAN
    /\ trendData = Returned(<<>>)
    /\ topProducts = <<>>
    /\ chartData = <<>>
    /\ raised = NoneRaised

\* const topProducts = useMemo(..., [data, isMobile]), first render
RenderTop ==
    /\ ~rendered
    /\ rendered' = TRUE
    /\ topProducts' = TopProducts(filteredData.value, isMobile)
    /\ raised' = [raised EXCEPT !.top = CallImported("useMemo")]
    /\ UNCHANGED <<pageVars, filteredData, dateFns, tz, isMobile, trendData, chartData>>

\* the display changes size: isMobile flips and the memo is recomputed
ResizeTop ==
    /\ rendered
    /\ isMobile' = ~isMobile
    /\ topProducts' = TopProducts(filteredData.value, isMobile')
    /\ raised' = [raised EXCEPT !.top = CallImported("useMemo")]
    /\ UNCHANGED <<pageVars, filteredData, rendered, dateFns, tz, trendData, chartData>>

NextTop == RenderTop \/ ResizeTop

SpecTop == InitTop /\ [][NextTop]_vars

NameOf(item) == IF item.productName # 0 THEN item.productName ELSE item.product
UnitPriceOf(item) == IF item.unitPrice # Undefined THEN item.unitPrice ELSE item.price

\* C7: before truncation there is exactly one entry per distinct product
\* display name of the input, named by it, with the summed quantity of that
\* product's records and the sum of their quantity x unit price as sales.
C7_OneEntryPerProduct ==
    LET d == filteredData.value
        names == {NameOf(d[i]) : i \in 1..Len(d)}
        of(n) == {i \in 1..Len(d) : NameOf(d[i]) = n}
        RECURSIVE quantityOf(_)
        quantityOf(S) == IF S = {} THEN 0
                         ELSE LET i == CHOOSE k \in S : TRUE
                              IN  d[i].quantity + quantityOf(S \ {i})
        RECURSIVE salesOf(_)
        salesOf(S) == IF S = {} THEN 0
                      ELSE LET i == CHOOSE k \in S : TRUE
                           IN  d[i].quantity * UnitPriceOf(d[i]) + salesOf(S \ {i})
    IN  (rendered /\ Cardinality(names) <= MobileLimit) =>
            /\ Len(topProducts) = Cardinality(names)
            /\ {topProducts[i] : i \in 1..Len(topProducts)} =
                   {[product |-> n, quantity |-> quantityOf(of(n)), sales |-> salesOf(of(n))] :
                        n \in names}

\* ---------------------------------------------------------- RegionalSales
CollapseAbove == 5
KeepTop == 4
MaxRegionLen == 2
MaxReg == 2
MaxPrice == 2
MaxWideReg == 7

\* names of chart entries: a region string, 0 for the literal 'Unknown' that
\* stands in for an absent region, Other for the synthetic entry
Unknown == 0
Other == -1

\* prices, in thousandths: multiples of 0.004, so amounts below one cent exist
\* and no amount lies halfway between two cents
PriceOf(k) == 4 * k

\* Number(value.toFixed(2)): the nearest hundredth, NaN for NaN
ToFixed2(v) == IF v = NaN THEN NaN ELSE ((v + 5) \div 10) * 10

\* the callback of data.reduce over regionMap, an object whose keys keep
\* their insertion order (region names are not integer-like)
ReduceRegion(acc, item) ==
    LET region == IF item.region # 0 THEN item.region ELSE Unknown
        amount == Times(Or(item.price, 0), Or(item.quantity, 0))
        known == \E i \in 1..Len(acc) : acc[i].name = region
        opened == IF known THEN acc ELSE Append(acc, [name |-> region, value |-> 0])
        i == CHOOSE k \in 1..Len(opened) : opened[k].name = region
    IN  [opened EXCEPT ![i] = [name |-> region, value |-> Plus(@.value, amount)]]

RECURSIVE GroupByRegion(_, _)
GroupByRegion(d, acc) ==
    IF d = <<>> THEN acc ELSE GroupByRegion(Tail(d), ReduceRegion(acc, Head(d)))

\* mutant: ascending comparator a.value - b.value
RECURSIVE InsertByValueAsc(_, _)
InsertByValueAsc(s, e) ==
    IF s = <<>> THEN <<e>>
    ELSE IF e.value < Head(s).value THEN <<e>> \o s
    ELSE <<Head(s)>> \o InsertByValueAsc(Tail(s), e)

\* .sort((a, b) => b.value - a.value), stable
RECURSIVE InsertByValue(_, _)
InsertByValue(s, e) ==
    IF s = <<>> THEN <<e>>
    ELSE IF Greater(e.value, Head(s).value) THEN <<e>> \o s
    ELSE <<Head(s)>> \o InsertByValue(Tail(s), e)

RECURSIVE SortByValue(_)
SortByValue(s) ==
    IF s = <<>> THEN <<>>
    ELSE InsertByValue(SortByValue(SubSeq(s, 1, Len(s) - 1)), s[Len(s)])

\* Object.entries(regionMap).map(...).sort(...)
SortedData(d) ==
    LET regionMap == GroupByRegion(d, <<>>)
    IN  SortByValue([i \in 1..Len(regionMap) |->
                        [name |-> regionMap[i].name, value |-> ToFixed2(regionMap[i].value)]])

\* otherRegions.reduce((sum, region) => sum + region.value, 0)
RECURSIVE PlusAll(_)
PlusAll(s) == IF s = <<>> THEN 0 ELSE Plus(PlusAll(SubSeq(s, 1, Len(s) - 1)), s[Len(s)])

\* mutant: five groups are collapsed too
CollapsesFromFive(mobile, n) == mobile /\ n >= CollapseAbove

\* isMobile && sortedData.length > 5
Collapses(mobile, n) == mobile /\ n > CollapseAbove

\* the identifiers bound where the JSX of RegionalSales is evaluated: the
\* props, the locals of the component and the constants of the file
RegionalSalesScope ==
    {"data", "isMobile", "chartData", "chartSize", "outerRadius", "COLORS", "RADIAN",
     "renderCustomizedLabel"}

\* reading an identifier no scope binds is a ReferenceError
ReadIdentifier(name) == IF name \in RegionalSalesScope THEN "none" ELSE "ReferenceError"

RegionalChartData(d, mobile) ==
    LET sortedData == SortedData(d)
        topRegions == SubSeq(sortedData, 1, KeepTop)
        otherRegions == SubSeq(sortedData, KeepTop + 1, Len(sortedData))
        otherTotal == PlusAll([i \in 1..Len(otherRegions) |-> otherRegions[i].value])
    IN  IF d = <<>> THEN <<>>
        ELSE IF Collapses(mobile, Len(sortedData))
               THEN topRegions \o <<[name |-> Other, value |-> ToFixed2(otherTotal)]>>
        ELSE sortedData

\* rows as SalesData declares them (unitPrice) and rows with the alias price
RegionRows ==
    {[BlankRow EXCEPT !.region = r, !.quantity = 1, !.unitPrice = PriceOf(k)] :
        r \in 0..MaxReg, k \in 1..MaxPrice}
    \cup {[BlankRow EXCEPT !.region = r, !.quantity = q, !.price = PriceOf(k)] :
        r \in 0..MaxReg, k \in 1..MaxPrice, q \in 1..MaxQty}

\* n rows over k regions in rotation (the absent region among them), prices
\* repeating with period m
WideRegionInput(n, k, m) ==
    [i \in 1..n |-> [BlankRow EXCEPT !.region = (i - 1) % k,
                                     !.quantity = MaxQty,
                                     !.price = PriceOf(1 + ((i * m) % MaxWideReg))]]
WideRegionInputs ==
    {WideRegionInput(n, k, m) : n \in 0..MaxWideReg, k \in 1..MaxWideReg, m \in 0..MaxPrice}

InitRegion ==
    /\ \E d \in SeqsUpTo(RegionRows, MaxRegionLen) \cup WideRegionInputs : ChartInput(d)
    /\ tz = 0
    /\ dateFns \in DateFnsMajors
    /\ rendered = FALSE
    /\ isMobile \in BOOLEAN
    /\ trendData = Returned(<<>>)
    /\ topProducts = <<>>
    /\ chartData = <<>>
    /\ raised = NoneRaised

\* const chartData = useMemo(..., [data, isMobile]), first render
RenderRegion ==
    /\ ~rendered
    /\ rendered' = TRUE
    /\ chartData' = RegionalChartData(filteredData.value, isMobile)
    /\ raised' = [raised EXCEPT !.region = ReadIdentifier("totalSales")]
    /\ UNCHANGED <<pageVars, filteredData, dateFns, tz, isMobile, trendData, topProducts>>

\* the display changes size: isMobile flips and the memo is recomputed
ResizeRegion ==
    /\ rendered
    /\ isMobile' = ~isMobile
    /\ chartData' = RegionalChartData(filteredData.value, isMobile')
    /\ raised' = [raised EXCEPT !.region = ReadIdentifier("totalSales")]
    /\ UNCHANGED <<pageVars, filteredData, rendered, dateFns, tz, trendData, topProducts>>

NextRegion == RenderRegion \/ ResizeRegion

SpecRegion == InitRegion /\ [][NextRegion]_vars

\* ------------------------------------------------------------ C8, C9, C10
ValuesOf(s) == [i \in 1..Len(s) |-> s[i].value]

\* C8: the values of the regional aggregation add up to the sum of
\* unitPrice x quantity over the input records, on either display (so also
\* after the collapse into Other).
C8_RegionTotalPreserved ==
    rendered =>
        LET d == filteredData.value
        IN  SumOf(ValuesOf(chartData)) =
                SumOf([i \in 1..Len(d) |-> UnitPriceOf(d[i]) * d[i].quantity])

\* the region groups of the input and what the aggregation sums into each
RegionKeys(d) == {d[i].region : i \in 1..Len(d)}
RECURSIVE RegionAmount(_, _)
RegionAmount(d, key) ==
    IF d = <<>> THEN 0
    ELSE (IF Head(d).region = key THEN Or(Head(d).price, 0) * Or(Head(d).quantity, 0) ELSE 0)
            + RegionAmount(Tail(d), key)
RegionValue(d, key) == ToFixed2(RegionAmount(d, key))

RECURSIVE SumOver(_, _)
SumOver(d, keys) ==
    IF keys = {} THEN 0
    ELSE LET k == CHOOSE x \in keys : TRUE
         IN  RegionValue(d, k) + SumOver(d, keys \ {k})

\* C9: on a constrained display with more than 5 region groups there are
\* exactly 5 entries, the 4 groups of highest value in rank order and then
\* Other with the sum of all the other groups; otherwise every group is an
\* entry and there is no Other.
C9_CollapseToOther ==
    rendered =>
        LET d == filteredData.value
            keys == RegionKeys(d)
            n == Len(chartData)
            shown == IF isMobile /\ Cardinality(keys) > 5 THEN 4 ELSE Cardinality(keys)
            top == {chartData[i].name : i \in 1..shown}
        IN  /\ n = (IF isMobile /\ Cardinality(keys) > 5 THEN 5 ELSE Cardinality(keys))
            /\ top \subseteq keys
            /\ Cardinality(top) = shown
            /\ \A i \in 1..shown : chartData[i].value = RegionValue(d, chartData[i].name)
            /\ \A i \in 1..(shown - 1) : chartData[i].value >= chartData[i + 1].value
            /\ \A i \in 1..shown : \A k \in keys \ top : chartData[i].value >= RegionValue(d, k)
            /\ n > shown =>
                /\ chartData[n].name = Other
                /\ chartData[n].value = SumOver(d, keys \ top)

\* seven groups on a constrained display, with a positive Other
C9_Witness ==
    /\ rendered
    /\ isMobile
    /\ Cardinality(RegionKeys(filteredData.value)) = 7
    /\ Len(chartData) = 5
    /\ chartData[5].name = Other
    /\ chartData[5].value > 0
    /\ chartData[1].value > chartData[4].value

\* exactly five groups on a constrained display: nothing is collapsed
C9_WitnessFive ==
    /\ rendered
    /\ isMobile
    /\ Cardinality(RegionKeys(filteredData.value)) = 5
    /\ Len(chartData) = 5

\* C10 as claimed: on every display each entry's value is at least the value
\* of the entry that follows it.
C10_SortedDescending ==
    rendered => \A i \in 1..(Len(chartData) - 1) : chartData[i].value >= chartData[i + 1].value

\* C10 as amended: each entry's value is at least the value of the entry that
\* follows it, except that the Other entry of a collapsed constrained display
\* comes last whatever its value.
C10_SortedUpToOther ==
    rendered =>
        LET collapsed == isMobile /\ Cardinality(RegionKeys(filteredData.value)) > 5
        IN  \A i \in 1..(Len(chartData) - 1) :
                (collapsed /\ i + 1 = Len(chartData)) \/ chartData[i].value >= chartData[i + 1].value

\* a collapsed display whose Other exceeds the entry before it, over regions
\* of different values
C10_Witness ==
    /\ rendered
    /\ isMobile
    /\ Len(chartData) = 5
    /\ chartData[5].name = Other
    /\ chartData[5].value > chartData[4].value
    /\ chartData[1].value > chartData[4].value

\* -------------------------------------------------------------- dashboard
\* Home hands filteredData to the three chart components (page.tsx:235-249)
MaxChartLen == 2

\* rows as SalesData declares them: every field present and of its type
WellTypedRow(d) ==
    [BlankRow EXCEPT !.orderDate = DateOnly(d), !.productName = d, !.category = 1,
                     !.region = d, !.quantity = d, !.unitPrice = PriceOf(d),
                     !.sales = d * PriceOf(d), !.profit = d]

\* a numeric cell that is empty or holds text
Malformed == {Undefined, Text}

\* the well-typed rows, and the first of them with its date at a time of day,
\* unparseable or missing, with one numeric field malformed, or with the
\* alias field price
ChartRows ==
    {WellTypedRow(d) : d \in Days}
        \cup {[WellTypedRow(1) EXCEPT !.orderDate = s] : s \in {DateTime(MaxDay, 1), BadDate, NoDate}}
        \cup {[WellTypedRow(1) EXCEPT !.quantity = m] : m \in Malformed}
        \cup {[WellTypedRow(1) EXCEPT !.sales = m] : m \in Malformed}
        \cup {[WellTypedRow(1) EXCEPT !.profit = m] : m \in Malformed}
        \cup {[WellTypedRow(1) EXCEPT !.unitPrice = Undefined, !.price = m] : m \in {PriceOf(1), Text}}

\* the filter spec Home starts with, and the one with both dates cleared
ChartFilters == {DefaultFilters, NoFilters}

InitCharts ==
    /\ \E d \in SeqsUpTo(ChartRows, MaxChartLen) : Loaded(d)
    /\ filters \in ChartFilters
    /\ filteredData = Returned(<<>>)
    /\ dateFns \in DateFnsMajors
    /\ tz \in TzOffsets
    /\ rendered = FALSE
    /\ ChartsIdle

\* a render of Home and of its three charts: the filter memo, then each chart
\* on the filtered set; a throw out of the filter leaves no chart rendered
RenderDashboard(mobile) ==
    LET fd == FilteredData(data, filters, dateFns, tz)
    IN  /\ filteredData' = fd
        /\ crashed' = (fd.threw # "none")
        /\ IF fd.threw # "none"
             THEN UNCHANGED <<trendData, topProducts, chartData, raised>>
             ELSE /\ trendData' = ProcessData(fd.value, tz)
                  /\ topProducts' = TopProducts(fd.value, mobile)
                  /\ chartData' = RegionalChartData(fd.value, mobile)
                  /\ raised' = [trend |-> trendData'.threw,
                                top |-> CallImported("useMemo"),
                                region |-> ReadIdentifier("totalSales")]

RenderCharts ==
    /\ ~rendered
    /\ rendered' = TRUE
    /\ RenderDashboard(isMobile)
    /\ UNCHANGED <<data, filters, isLoading, mounted, categories, regions, lsData,
                   fetchState, upload, outcome, dateFns, tz, isMobile>>

\* the display changes size: useResponsive flips isMobile and Home renders again
ResizeCharts ==
    /\ rendered
    /\ ~crashed
    /\ isMobile' = ~isMobile
    /\ RenderDashboard(isMobile')
    /\ UNCHANGED <<data, filters, isLoading, mounted, categories, regions, lsData,
                   fetchState, upload, outcome, rendered, dateFns, tz>>

NextCharts == RenderCharts \/ ResizeCharts

SpecCharts == InitCharts /\ [][NextCharts]_vars

\* -------------------------------------------------------------------- C11
WellTyped(d) ==
    \A i \in 1..Len(d) :
        /\ HasDay(d[i].orderDate)
        /\ d[i].productName # 0 /\ d[i].category # 0 /\ d[i].region # 0
        /\ IsNumber(d[i].quantity) /\ IsNumber(d[i].unitPrice)
        /\ IsNumber(d[i].sales) /\ IsNumber(d[i].profit)

\* C11: on every well-typed filtered set, the empty one included, none of the
\* three chart components raises, the time series holds numbers, every
\* ranking entry has a product name and numeric quantity and sales, every
\* regional entry a numeric value; on the empty filtered set all three are empty.
C11_AggregatorsTotal ==
    (rendered /\ filteredData.threw = "none" /\ WellTyped(filteredData.value)) =>
        /\ raised = NoneRaised
        /\ \A i \in 1..Len(trendData.value) :
            /\ IsNumber(trendData.value[i].sales)
            /\ IsNumber(trendData.value[i].profit)
            /\ IsNumber(trendData.value[i].revenue)
        /\ \A i \in 1..Len(topProducts) :
            /\ topProducts[i].product # 0
            /\ IsNumber(topProducts[i].quantity)
            /\ IsNumber(topProducts[i].sales)
        /\ \A i \in 1..Len(chartData) : IsNumber(chartData[i].value)
        /\ filteredData.value = <<>> =>
            (trendData.value = <<>> /\ topProducts = <<>> /\ chartData = <<>>)

\* -------------------------------------------------------------------- C12
Dated(d) == {i \in 1..Len(d) : HasDay(DateField(d[i]))}

\* C12: under every filter spec, one with an empty start or end included, the
\* filter raises nothing and no record without a parseable date is in the
\* filtered set; the time series raises nothing and has no more buckets than
\* there are dated records.
C12_UndatedExcluded ==
    rendered =>
        /\ filteredData.threw = "none"
        /\ \A i \in 1..Len(filteredData.value) : HasDay(filteredData.value[i].orderDate)
        /\ trendData.threw = "none"
        /\ Len(trendData.value) <= Cardinality(Dated(filteredData.value))

\* -------------------------------------------------------------------- C13
\* C13: when every record is dated, the time series raises nothing and every
\* sum of the three aggregations is a number: the bucket sales, profit and
\* revenue, the ranking quantity and sales, the regional values.
C13_NumericSoftFail ==
    (rendered /\ filteredData.threw = "none" /\ AllValidDates(filteredData.value)) =>
        /\ trendData.threw = "none"
        /\ \A i \in 1..Len(trendData.value) :
            /\ IsNumber(trendData.value[i].sales)
            /\ IsNumber(trendData.value[i].profit)
            /\ IsNumber(trendData.value[i].revenue)
        /\ \A i \in 1..Len(topProducts) :
            /\ IsNumber(topProducts[i].quantity)
            /\ IsNumber(topProducts[i].sales)
        /\ \A i \in 1..Len(chartData) : IsNumber(chartData[i].value)

=============================================================================
